---- MODULE Spec2Model ----
(***************************************************************************)
(* The multi-target Tracker of deep_sort/sort/tracker.py as a state        *)
(* machine.  One action per public method: Predict (Tracker.predict) and   *)
(* Update (Tracker.update, with _match, _initiate_track, the pruning and   *)
(* the gallery refresh it runs).                                           *)
(*                                                                         *)
(* The collaborators that tracker.py imports (Track, the assignment        *)
(* solvers of linear_assignment, the overlap cost of iou_matching, the     *)
(* nearest-neighbour metric) are modelled from their documented contracts. *)
(* The Kalman mean/covariance of a track and the box of a detection only   *)
(* enter the tracker through the two cost matrices, so they are abstracted *)
(* into inputs of each update:                                             *)
(*   the outcome of the appearance cascade (any matching of the tracks it  *)
(*           is given with the detections);                                *)
(*   iouOK : the (track index, detection index) pairs whose IOU cost is    *)
(*           within max_iou_distance.                                      *)
(***************************************************************************)
EXTENDS Integers, Sequences, FiniteSets, TLC

\* ------------------------------------------------------------------ bounds
MaxNInit  == 2    \* n_init is drawn from 1..MaxNInit at construction
MaxMaxAge == 2    \* max_age is drawn from 1..MaxMaxAge at construction
MaxTracks == 2    \* size of the active set after an update
MaxDets   == 2    \* detections per frame
MaxRaw    == 1    \* detections per frame and tracks when features may be missing
MaxFrames == 4    \* cap on a track's age and hits
MaxId     == 3    \* identities handed out in a session
Budget    == 2    \* features kept per identity by the metric

None == "None"                     \* a missing feature vector
FeatureVals == {"a"}               \* well-formed feature vectors
Tentative == "Tentative"
Confirmed == "Confirmed"
Deleted   == "Deleted"

VARIABLES
    tracks,      \* self.tracks : sequence of Track records
    _next_id,    \* self._next_id
    samples,     \* the metric's gallery: identity -> sequence of features
    n_init,      \* self.n_init
    max_age,     \* self.max_age
    lastOp,      \* history: the last call ("init", "predict", "update", "update_raised")
    pre,         \* history: tracks, _next_id and samples when the last call began
    lastDets,    \* history: the detections of the last update
    lastIou,     \* history: the iouOK relation of the last update
    lastMatch,   \* history: what _match computed in the last update
    lastFit,     \* history: the arguments of the last partial_fit
    seen,        \* history: identity -> update calls lived through while Tentative
    retired,     \* history: identities that have left the active set
    inProtocol,  \* history: so far predict was called once before each update
    prevHits,    \* history: identities matched by the update before the last
                 \*          update (after a predict: by the last update)
    handed,      \* history: identity -> features passed to partial_fit so far
    misses       \* history: identity -> updates missed in a row, for the
                 \*          tracks the last update began or ended with
                 \* (prevHits and misses are kept while the calls follow the
                 \*  protocol, and emptied once they do not)

vars == <<tracks, _next_id, samples, n_init, max_age, lastOp, pre, lastDets,
          lastIou, lastMatch, lastFit, seen, retired, inProtocol, prevHits,
          handed, misses>>

\* ------------------------------------------------------------------ helpers
Idx(s) == 1..Len(s)

Ids(trks) == {trks[i].track_id : i \in Idx(trks)}

Last(s, n) == IF Len(s) <= n THEN s ELSE SubSeq(s, Len(s) - n + 1, Len(s))

RECURSIVE SortedSeq(_)
SortedSeq(S) ==
    IF S = {} THEN <<>>
    ELSE LET m == CHOOSE x \in S : \A y \in S : x <= y
         IN  <<m>> \o SortedSeq(S \ {m})

MatchedTracks(m) == {p[1] : p \in m}
MatchedDets(m)   == {p[2] : p \in m}

\* ------------------------------------------------------------------ Track
\* Track(mean, covariance, track_id, n_init, max_age, feature)
Track(track_id, ninit, maxage, feature) ==
    [track_id |-> track_id, state |-> Tentative, hits |-> 0, age |-> 0,
     time_since_update |-> 0, features |-> <<feature>>,
     n_init |-> ninit, max_age |-> maxage]

is_confirmed(t) == t.state = Confirmed
is_deleted(t)   == t.state = Deleted
is_tentative(t) == t.state = Tentative

Track_predict(t) ==
    [t EXCEPT !.age = @ + 1, !.time_since_update = @ + 1]

Track_update(t, det) ==
    [t EXCEPT !.features = Append(@, det.feature),
              !.hits = @ + 1,
              !.time_since_update = 0,
              !.state = IF @ = Tentative /\ t.hits + 1 >= t.n_init
                        THEN Confirmed ELSE @]

Track_mark_missed(t) ==
    IF t.state = Tentative THEN [t EXCEPT !.state = Deleted]
    ELSE IF t.time_since_update > t.max_age THEN [t EXCEPT !.state = Deleted]
    ELSE t

\* ------------------------------------------------------------------ solvers
\* A set of (track index, detection index) pairs that uses no index twice.
IsMatching(m) == \A p, q \in m : (p[1] = q[1]) <=> (p[2] = q[2])

\* linear_assignment.min_cost_matching: the optimal assignment, cut off at
\* max_distance.  Every outcome is a matching of admissible pairs that leaves
\* no admissible pair with both ends free (such a pair would lower the cost).
min_cost_matching(OK, T, D) ==
    LET E == {e \in OK : e[1] \in T /\ e[2] \in D}
    IN  {m \in SUBSET E :
            /\ IsMatching(m)
            /\ \A e \in E : \E p \in m : p[1] = e[1] \/ p[2] = e[2]}

\* linear_assignment.matching_cascade: one min_cost_matching per tier, tiers in
\* ascending time_since_update (1 .. cascade_depth), over the gated appearance
\* cost.  The cost matrix is an input of the frame, so every matching of the
\* tracks of some tier with the detections is an outcome (the one the cost
\* relation appOK = m produces).
matching_cascade(depth, trks, dets, T) ==
    LET tiers == {k \in T : trks[k].time_since_update \in 1..depth}
    IN  {m \in SUBSET (tiers \X Idx(dets)) : IsMatching(m)}

\* Whether the cascade evaluates gated_metric (and so metric.distance) at all:
\* some tier holds a track while detections are left.
CallsMetric(depth, trks, dets) ==
    /\ dets # <<>>
    /\ \E k \in Idx(trks) : /\ is_confirmed(trks[k])
                            /\ trks[k].time_since_update \in 1..depth

\* ------------------------------------------------------------------ Tracker._match
\* gated_metric: the identities whose galleries metric.distance is asked for
gated_metric_targets(trks, track_indices) ==
    {trks[i].track_id : i \in track_indices}

confirmed_tracks(trks)   == {i \in Idx(trks) : is_confirmed(trks[i])}
unconfirmed_tracks(trks) == {i \in Idx(trks) : ~is_confirmed(trks[i])}

\* faulty variant: the one-miss test written as "at least one miss"
iou_track_candidates_stale(trks, unconfirmed, unmatched_tracks_a) ==
    unconfirmed \cup {k \in unmatched_tracks_a : trks[k].time_since_update >= 1}

\* faulty variant: the tracks that missed one frame get no second chance
iou_track_candidates_unconfirmed_only(trks, unconfirmed, unmatched_tracks_a) ==
    unconfirmed

\* faulty variant: the one-miss test written against a fresh track
iou_track_candidates_fresh(trks, unconfirmed, unmatched_tracks_a) ==
    unconfirmed \cup {k \in unmatched_tracks_a : trks[k].time_since_update = 0}

iou_track_candidates(trks, unconfirmed, unmatched_tracks_a) ==
    unconfirmed \cup {k \in unmatched_tracks_a : trks[k].time_since_update = 1}

\* faulty variant: the tracks handed to Stage B are also carried as unmatched
carried_unmatched_a_unfiltered(trks, unmatched_tracks_a) ==
    unmatched_tracks_a

carried_unmatched_a(trks, unmatched_tracks_a) ==
    {k \in unmatched_tracks_a : trks[k].time_since_update # 1}

\* faulty variant: the leftovers of Stage B are dropped from the merge
merge_unmatched_tracks_a_only(unmatched_tracks_a, unmatched_tracks_b) ==
    unmatched_tracks_a

\* faulty variant: the tracks carried over from Stage A are dropped from the merge
merge_unmatched_tracks_b_only(unmatched_tracks_a, unmatched_tracks_b) ==
    unmatched_tracks_b

merge_unmatched_tracks(unmatched_tracks_a, unmatched_tracks_b) ==
    unmatched_tracks_a \cup unmatched_tracks_b

\* The record _match returns for one outcome of the two solvers.
MatchResult(trks, dets, matches_a, matches_b) ==
    LET ua    == confirmed_tracks(trks) \ MatchedTracks(matches_a)
        cands == iou_track_candidates(trks, unconfirmed_tracks(trks), ua)
        ub    == cands \ MatchedTracks(matches_b)
        ud    == (Idx(dets) \ MatchedDets(matches_a)) \ MatchedDets(matches_b)
    IN  [matches_a |-> matches_a,
         unmatched_tracks_a |-> ua,
         unmatched_detections_a |-> Idx(dets) \ MatchedDets(matches_a),
         iou_track_candidates |-> cands,
         matches_b |-> matches_b,
         matches |-> matches_a \cup matches_b,
         unmatched_tracks |->
             merge_unmatched_tracks(carried_unmatched_a(trks, ua), ub),
         unmatched_detections |-> SortedSeq(ud)]

\* All outcomes of _match when the Stage A solver returned matches_a and the
\* IOU cost admits the pairs iouOK.
_match(trks, dets, matches_a, iouOK) ==
    { MatchResult(trks, dets, matches_a, mb)
      : mb \in min_cost_matching(
            iouOK,
            iou_track_candidates(trks, unconfirmed_tracks(trks),
                confirmed_tracks(trks) \ MatchedTracks(matches_a)),
            Idx(dets) \ MatchedDets(matches_a)) }

NoMatch ==
    [matches_a |-> {}, unmatched_tracks_a |-> {}, unmatched_detections_a |-> {},
     iou_track_candidates |-> {}, matches_b |-> {}, matches |-> {},
     unmatched_tracks |-> {}, unmatched_detections |-> <<>>]

\* ------------------------------------------------------------------ Tracker.predict
\* faulty variant: only the confirmed tracks are propagated
predict_confirmed_only(trks) ==
    [i \in Idx(trks) |->
        IF is_confirmed(trks[i]) THEN Track_predict(trks[i]) ELSE trks[i]]

predict(trks) == [i \in Idx(trks) |-> Track_predict(trks[i])]

\* ------------------------------------------------------------------ Tracker.update
\* for track_idx, detection_idx in matches: tracks[track_idx].update(kf, det)
apply_matches(trks, dets, matches) ==
    [i \in Idx(trks) |->
        IF i \in MatchedTracks(matches)
        THEN Track_update(trks[i],
                 dets[CHOOSE d \in Idx(dets) : <<i, d>> \in matches])
        ELSE trks[i]]

\* faulty variant: a miss also advances the miss counter
apply_missed_counting(trks, unmatched_tracks) ==
    [i \in Idx(trks) |->
        IF i \in unmatched_tracks
        THEN Track_mark_missed(
                 [trks[i] EXCEPT !.time_since_update = @ + 1])
        ELSE trks[i]]

\* for track_idx in unmatched_tracks: tracks[track_idx].mark_missed()
apply_missed(trks, unmatched_tracks) ==
    [i \in Idx(trks) |->
        IF i \in unmatched_tracks THEN Track_mark_missed(trks[i]) ELSE trks[i]]

\* faulty variant: the identity counter is not advanced
_initiate_track_same_id(st, detection, ninit, maxage) ==
    [tracks  |-> Append(st.tracks,
                        Track(st.next_id, ninit, maxage, detection.feature)),
     next_id |-> st.next_id]

\* faulty variant: n_init and max_age are passed to Track in the wrong order
_initiate_track_swapped(st, detection, ninit, maxage) ==
    [tracks  |-> Append(st.tracks,
                        Track(st.next_id, maxage, ninit, detection.feature)),
     next_id |-> st.next_id + 1]

\* _initiate_track on the pair <<tracks, _next_id>>
_initiate_track(st, detection, ninit, maxage) ==
    [tracks  |-> Append(st.tracks,
                        Track(st.next_id, ninit, maxage, detection.feature)),
     next_id |-> st.next_id + 1]

\* faulty variant: only the first unmatched detection starts a track
initiate_all_first_only(st, dets, unmatched_detections, ninit, maxage) ==
    IF unmatched_detections = <<>> THEN st
    ELSE _initiate_track(st, dets[Head(unmatched_detections)], ninit, maxage)

\* for detection_idx in unmatched_detections: self._initiate_track(...)
RECURSIVE initiate_all(_, _, _, _, _)
initiate_all(st, dets, unmatched_detections, ninit, maxage) ==
    IF unmatched_detections = <<>> THEN st
    ELSE initiate_all(
             _initiate_track(st, dets[Head(unmatched_detections)], ninit, maxage),
             dets, Tail(unmatched_detections), ninit, maxage)

\* faulty variant: the filter of the pruning is inverted
prune_inverted(trks) == SelectSeq(trks, LAMBDA t : is_deleted(t))

\* self.tracks = [t for t in self.tracks if not t.is_deleted()]
prune(trks) == SelectSeq(trks, LAMBDA t : ~is_deleted(t))

\* faulty variant: every remaining track is passed as an active target
active_targets_all(trks) == {trks[i].track_id : i \in Idx(trks)}

active_targets(trks) == {trks[i].track_id : i \in confirmed_tracks(trks)}

RECURSIVE fit_features(_)
fit_features(trks) ==
    IF trks = <<>> THEN <<>>
    ELSE (IF is_confirmed(Head(trks)) THEN Head(trks).features ELSE <<>>)
         \o fit_features(Tail(trks))

RECURSIVE fit_targets(_)
fit_targets(trks) ==
    IF trks = <<>> THEN <<>>
    ELSE (IF is_confirmed(Head(trks))
          THEN [j \in Idx(Head(trks).features) |-> Head(trks).track_id]
          ELSE <<>>)
         \o fit_targets(Tail(trks))

\* faulty variant: the feature list of every track is cleared
clear_features_all(trks) ==
    [i \in Idx(trks) |-> [trks[i] EXCEPT !.features = <<>>]]

\* faulty variant: the handed-over feature lists are not cleared
clear_features_kept(trks) == trks

clear_features(trks) ==
    [i \in Idx(trks) |->
        IF is_confirmed(trks[i]) THEN [trks[i] EXCEPT !.features = <<>>]
        ELSE trks[i]]

\* metric.partial_fit(features, targets, active_targets): each feature joins
\* the gallery of its target, galleries are cut to the budget, and only the
\* galleries of the active targets are kept.
RECURSIVE FeaturesOf(_, _, _)
FeaturesOf(k, features, targets) ==
    IF features = <<>> THEN <<>>
    ELSE (IF Head(targets) = k THEN <<Head(features)>> ELSE <<>>)
         \o FeaturesOf(k, Tail(features), Tail(targets))

partial_fit(smp, features, targets, active) ==
    [k \in active |->
        Last((IF k \in DOMAIN smp THEN smp[k] ELSE <<>>)
             \o FeaturesOf(k, features, targets), Budget)]

\* ------------------------------------------------------------------ inputs
Detection(f) == [feature |-> f]

\* The detection lists of a frame: at most max detections, features from F.
DetSeqs(F, max) ==
    UNION { [1..n -> {Detection(f) : f \in F}] : n \in 0..max }

Malformed(dets) == \E d \in Idx(dets) : dets[d].feature = None

\* ------------------------------------------------------------------ state machine
Init ==
    /\ tracks = <<>>
    /\ _next_id = 1
    /\ samples = <<>>
    /\ n_init \in 1..MaxNInit
    /\ max_age \in 1..MaxMaxAge
    /\ lastOp = "init"
    /\ pre = [tracks |-> <<>>, next_id |-> 1, samples |-> <<>>]
    /\ lastDets = <<>>
    /\ lastIou = {}
    /\ lastMatch = NoMatch
    /\ lastFit = [features |-> <<>>, targets |-> <<>>, active_targets |-> {},
                  calls |-> 0]
    /\ seen = <<>>
    /\ retired = {}
    /\ inProtocol = TRUE
    /\ prevHits = {}
    /\ handed = <<>>
    /\ misses = <<>>

Snapshot == [tracks |-> tracks, next_id |-> _next_id, samples |-> samples]

\* The identities the last update matched (empty when the last call was none).
HitIds == {pre.tracks[k].track_id : k \in MatchedTracks(lastMatch.matches)}

\* predict()
PredictStep ==
    /\ tracks' = predict(tracks)
    /\ lastOp' = "predict"
    /\ pre' = Snapshot
    /\ lastDets' = <<>>
    /\ lastIou' = {}
    /\ lastMatch' = NoMatch
    /\ inProtocol' = (inProtocol /\ lastOp # "predict")
    /\ prevHits' = IF ~inProtocol' THEN {}
                   ELSE IF lastOp = "update" THEN HitIds ELSE prevHits
    /\ misses' = IF inProtocol' THEN misses ELSE <<>>
    /\ UNCHANGED <<_next_id, samples, n_init, max_age, lastFit, seen, retired,
                   handed>>

\* predict(), while no track has reached the age cap
Predict ==
    /\ \A i \in Idx(tracks) : tracks[i].age < MaxFrames
    /\ PredictStep

\* The state after update(dets) when _match returned r.
UpdateTo(dets, iouOK, r, maxTracks) ==
    LET t1  == apply_matches(tracks, dets, r.matches)
        t2  == apply_missed(t1, r.unmatched_tracks)
        st  == initiate_all([tracks |-> t2, next_id |-> _next_id], dets,
                            r.unmatched_detections, n_init, max_age)
        t3  == prune(st.tracks)
        act == active_targets(t3)
        fs  == fit_features(t3)
        ts  == fit_targets(t3)
        t4  == clear_features(t3)
    IN  /\ Len(t3) <= maxTracks
        /\ st.next_id <= MaxId + 1
        /\ \A i \in Idx(t3) : t3[i].hits <= MaxFrames
        /\ tracks' = t4
        /\ _next_id' = st.next_id
        /\ samples' = partial_fit(samples, fs, ts, act)
        /\ lastOp' = "update"
        /\ pre' = Snapshot
        /\ lastDets' = dets
        /\ lastIou' = iouOK
        /\ lastMatch' = r
        /\ lastFit' = [features |-> fs, targets |-> ts, active_targets |-> act,
                       calls |-> 1]
        /\ seen' = [k \in Ids(t4) |->
                      IF k \in DOMAIN seen
                      THEN (IF \E i \in Idx(tracks) :
                                  /\ tracks[i].track_id = k
                                  /\ is_tentative(tracks[i])
                            THEN seen[k] + 1 ELSE seen[k])
                      ELSE 0]
        /\ retired' = retired \cup (Ids(tracks) \ Ids(t4))
        /\ inProtocol' = (inProtocol /\ lastOp = "predict")
        /\ prevHits' = IF ~inProtocol' THEN {}
                       ELSE IF lastOp = "update" THEN HitIds ELSE prevHits
        /\ handed' = [k \in Ids(t4) |->
                        (IF k \in DOMAIN handed THEN handed[k] ELSE 0)
                        + Len(FeaturesOf(k, fs, ts))]
        /\ misses' = IF inProtocol'
                      THEN [k \in Ids(tracks) \cup Ids(t4) |->
                               IF \E i \in r.unmatched_tracks :
                                      tracks[i].track_id = k
                               THEN misses[k] + 1 ELSE 0]
                      ELSE <<>>
        /\ UNCHANGED <<n_init, max_age>>

UpdateOver(F, max, maxTracks) ==
    \E dets \in DetSeqs(F, max) :
    \E ma \in matching_cascade(max_age, tracks, dets, confirmed_tracks(tracks)) :
    \E iouOK \in SUBSET ((Idx(tracks) \ MatchedTracks(ma))
                         \X (Idx(dets) \ MatchedDets(ma))) :
    \E r \in _match(tracks, dets, ma, iouOK) :
        UpdateTo(dets, iouOK, r, maxTracks)

\* update(dets) with a detection that has no feature, when the cascade hands
\* the features to metric.distance: the call may raise out of _match, before
\* anything is changed.
UpdateRaises ==
    \E dets \in DetSeqs(FeatureVals \cup {None}, MaxRaw) :
        /\ Malformed(dets)
        /\ CallsMetric(max_age, tracks, dets)
        /\ lastOp' = "update_raised"
        /\ pre' = Snapshot
        /\ lastDets' = dets
        /\ lastIou' = {}
        /\ lastMatch' = NoMatch
        /\ inProtocol' = (inProtocol /\ lastOp = "predict")
        /\ prevHits' = IF ~inProtocol' THEN {}
                       ELSE IF lastOp = "update" THEN HitIds ELSE prevHits
        /\ misses' = IF inProtocol' THEN misses ELSE <<>>
        /\ UNCHANGED <<tracks, _next_id, samples, n_init, max_age, lastFit,
                       seen, retired, handed>>

\* update(detections) with well-formed detections
Update == UpdateOver(FeatureVals, MaxDets, MaxTracks)

\* update(detections) where a detection may lack its feature
UpdateRaw == UpdateOver(FeatureVals \cup {None}, MaxRaw, MaxRaw)

Next == Predict \/ Update

Spec == Init /\ [][Next]_vars

NextRaw == Predict \/ UpdateRaw \/ UpdateRaises

SpecRaw == Init /\ [][NextRaw]_vars

\* The calling protocol of the docstring of predict: predict is called once
\* every time step, before update, and the caller keeps supplying frames.  A
\* track is matched at most MaxFrames times, so no track lives for ever and
\* predict needs no cap on the age.
PredictFrame == lastOp # "predict" /\ PredictStep

UpdateFrame == lastOp = "predict" /\ Update

NextFrames == PredictFrame \/ UpdateFrame

SpecFrames == Init /\ [][NextFrames]_vars /\ WF_vars(NextFrames)

\* ------------------------------------------------------------------ properties
PreIdx == Idx(pre.tracks)
PreTrack(k) == pre.tracks[k]
Survives(k) == PreTrack(k).track_id \in Ids(tracks)
Cur(k) == tracks[CHOOSE j \in Idx(tracks) :
                     tracks[j].track_id = PreTrack(k).track_id]
WasMatched(k) == k \in MatchedTracks(lastMatch.matches)
Updated == lastOp = "update"
Predicted == lastOp = "predict"

\* C1 (as claimed): in every frame (predict, then update), after update a
\* track that stays in the active set has time_since_update 0 if it was
\* matched, and otherwise its value at the call of update plus 1.
C1_Claimed ==
    (inProtocol /\ Updated) =>
        \A k \in PreIdx : Survives(k) =>
            Cur(k).time_since_update =
                IF WasMatched(k) THEN 0
                ELSE PreTrack(k).time_since_update + 1

\* C1 (amended): after update, a track that stays in the active set has
\* time_since_update 0 if it was matched, and otherwise exactly its value at
\* the call of update; the increment by 1 is the one predict applies.
C1_TimeSinceUpdate ==
    /\ Updated =>
           \A k \in PreIdx : Survives(k) =>
               Cur(k).time_since_update =
                   IF WasMatched(k) THEN 0
                   ELSE PreTrack(k).time_since_update
    /\ Predicted =>
           /\ Len(tracks) = Len(pre.tracks)
           /\ \A k \in PreIdx :
                  tracks[k].time_since_update =
                      PreTrack(k).time_since_update + 1

C1_Witness ==
    /\ inProtocol
    /\ Updated
    /\ \E k \in PreIdx : /\ Survives(k) /\ WasMatched(k)
                         /\ PreTrack(k).time_since_update >= 1
    /\ \E k \in PreIdx : /\ Survives(k) /\ ~WasMatched(k)
                         /\ PreTrack(k).time_since_update >= 1

\* C2: identities are unique, increase in creation order and are never
\* reused: the active set is strictly increasing in track_id, every identity
\* in use or retired lies below the counter, a track created by an update
\* gets an identity at or above the counter's value before the call, and no
\* retired identity is in the active set.
C2_Identities ==
    /\ \A i, j \in Idx(tracks) :
           i < j => tracks[i].track_id < tracks[j].track_id
    /\ \A k \in Ids(tracks) \cup retired : k < _next_id
    /\ retired \cap Ids(tracks) = {}
    /\ Updated =>
           \A k \in Ids(tracks) \ Ids(pre.tracks) :
               /\ k >= pre.next_id
               /\ \A o \in Ids(pre.tracks) \cup retired : o < k

C2_Witness ==
    /\ Updated
    /\ retired # {}
    /\ Ids(pre.tracks) # {}
    /\ Ids(tracks) \ Ids(pre.tracks) # {}
    /\ Ids(pre.tracks) \ Ids(tracks) # {}

\* C3: a Confirmed track was matched in each of the first n_init update calls
\* after its creation, and a track with fewer than n_init updates is
\* Tentative and was matched in every update call it has lived through.
C3_Confirmation ==
    \A i \in Idx(tracks) :
        /\ is_confirmed(tracks[i]) =>
               /\ tracks[i].hits >= n_init
               /\ seen[tracks[i].track_id] = n_init
        /\ tracks[i].hits < n_init =>
               /\ is_tentative(tracks[i])
               /\ seen[tracks[i].track_id] = tracks[i].hits

C3_Witness ==
    /\ inProtocol
    /\ n_init = 2
    /\ Updated
    /\ \E k \in PreIdx :
           /\ is_tentative(PreTrack(k)) /\ PreTrack(k).hits = 1
           /\ Survives(k) /\ is_confirmed(Cur(k))
    /\ \E i \in Idx(tracks) : is_tentative(tracks[i]) /\ tracks[i].hits = 1

\* C4: the IOU candidates of an update hold no Confirmed track whose
\* time_since_update differs from 1, and a Confirmed track that Stage A left
\* unmatched with time_since_update > 1 is in the unmatched tracks and in no
\* match.
C4_StageBCandidates ==
    Updated =>
        /\ \A k \in lastMatch.iou_track_candidates :
               is_confirmed(PreTrack(k)) =>
                   PreTrack(k).time_since_update = 1
        /\ \A k \in PreIdx :
               ( /\ is_confirmed(PreTrack(k))
                 /\ k \notin MatchedTracks(lastMatch.matches_a)
                 /\ PreTrack(k).time_since_update > 1 )
               => /\ k \in lastMatch.unmatched_tracks
                  /\ k \notin MatchedTracks(lastMatch.matches_b)
                  /\ k \notin MatchedTracks(lastMatch.matches)

C4_Witness ==
    /\ inProtocol
    /\ Updated
    /\ \E k \in PreIdx :
           /\ is_confirmed(PreTrack(k))
           /\ PreTrack(k).time_since_update > 1
           /\ k \notin MatchedTracks(lastMatch.matches_a)
           /\ \E d \in lastMatch.unmatched_detections_a : <<k, d>> \in lastIou
           /\ k \in lastMatch.unmatched_tracks
           /\ Survives(k)

\* C5: after an update every Tentative track of the active set has
\* time_since_update 0 and was matched or created by that update, and a
\* Tentative track that was not matched has left the active set.
C5_TentativeMiss ==
    Updated =>
        /\ \A i \in Idx(tracks) : is_tentative(tracks[i]) =>
               /\ tracks[i].time_since_update = 0
               /\ \/ tracks[i].track_id \notin Ids(pre.tracks)
                  \/ \E k \in PreIdx :
                         /\ PreTrack(k).track_id = tracks[i].track_id
                         /\ WasMatched(k)
        /\ \A k \in PreIdx :
               (is_tentative(PreTrack(k)) /\ ~WasMatched(k)) =>
                   /\ ~Survives(k)
                   /\ PreTrack(k).track_id \in retired

C5_Witness ==
    /\ inProtocol
    /\ Updated
    /\ \E k \in PreIdx :
           /\ is_tentative(PreTrack(k))
           /\ PreTrack(k).time_since_update = 1
           /\ ~WasMatched(k)
           /\ ~Survives(k)
    /\ \E k \in PreIdx :
           /\ is_tentative(PreTrack(k))
           /\ WasMatched(k)
           /\ Survives(k) /\ is_tentative(Cur(k))

\* C6: after an update no track of the active set has time_since_update
\* above max_age.
C6_MaxAge ==
    Updated =>
        \A i \in Idx(tracks) : tracks[i].time_since_update <= max_age

C6_Witness ==
    /\ inProtocol
    /\ Updated
    /\ \E k \in PreIdx :
           /\ is_confirmed(PreTrack(k))
           /\ PreTrack(k).time_since_update > max_age
           /\ ~Survives(k)
    /\ \E i \in Idx(tracks) : tracks[i].time_since_update = max_age

AllConfirmedYoung(trks) ==
    \A k \in Idx(trks) :
        is_confirmed(trks[k]) /\ trks[k].time_since_update <= max_age

\* C7 (as claimed): update([]) on Confirmed, young tracks keeps every track,
\* creates none, leaves the counter alone and adds 1 to each
\* time_since_update (stated for the calls that follow the protocol).
C7_Claimed ==
    (inProtocol /\ Updated /\ lastDets = <<>>
        /\ AllConfirmedYoung(pre.tracks)) =>
        /\ Len(tracks) = Len(pre.tracks)
        /\ _next_id = pre.next_id
        /\ \A k \in PreIdx :
               /\ tracks[k].track_id = PreTrack(k).track_id
               /\ tracks[k].time_since_update =
                      PreTrack(k).time_since_update + 1

\* C7 (amended): update([]) on Confirmed, young tracks keeps every track,
\* creates none, leaves the counter alone and leaves each time_since_update
\* as it was at the call.
C7_EmptyUpdate ==
    (Updated /\ lastDets = <<>> /\ AllConfirmedYoung(pre.tracks)) =>
        /\ Len(tracks) = Len(pre.tracks)
        /\ _next_id = pre.next_id
        /\ \A k \in PreIdx :
               /\ tracks[k].track_id = PreTrack(k).track_id
               /\ tracks[k].state = PreTrack(k).state
               /\ tracks[k].time_since_update =
                      PreTrack(k).time_since_update

C7_Witness ==
    /\ inProtocol
    /\ Updated /\ lastDets = <<>> /\ AllConfirmedYoung(pre.tracks)
    /\ Len(pre.tracks) = 2
    /\ \E k \in PreIdx : PreTrack(k).time_since_update = max_age
    /\ \E k \in PreIdx : PreTrack(k).time_since_update = 1

ConfirmedIds(trks) == {trks[i].track_id : i \in {j \in Idx(trks) : trks[j].state = Confirmed}}

AllMissedNoneUpdated ==
    /\ lastMatch.matches = {}
    /\ lastMatch.unmatched_tracks = PreIdx
    /\ tracks = SelectSeq(pre.tracks,
                    LAMBDA t : /\ t.state = Confirmed
                               /\ t.time_since_update <= max_age)

\* C8 (as claimed): an update without detections treats every track as
\* unmatched and leaves the gallery as it was (stated for the calls that
\* follow the protocol).
C8_Claimed ==
    (inProtocol /\ Updated /\ lastDets = <<>>) =>
        /\ AllMissedNoneUpdated
        /\ samples = pre.samples

\* C8 (amended): an update without detections treats every track as
\* unmatched and hands no feature to the gallery: the gallery of every track
\* that stays Confirmed in the active set is as it was, and the galleries of
\* the other identities (the tracks this update deleted) are discarded.
C8_EmptyDetections ==
    (Updated /\ lastDets = <<>>) =>
        /\ AllMissedNoneUpdated
        /\ lastFit.features = <<>>
        /\ DOMAIN samples = ConfirmedIds(tracks)
        /\ \A k \in DOMAIN samples :
               k \in DOMAIN pre.samples /\ samples[k] = pre.samples[k]

C8_Witness ==
    /\ inProtocol
    /\ Updated /\ lastDets = <<>>
    /\ DOMAIN samples # {}
    /\ DOMAIN pre.samples \ DOMAIN samples # {}

\* C9: an update given a detection without a feature is rejected with an
\* input-validation error before matching, and changes nothing (stated for
\* the calls that follow the protocol).
C9_MalformedRejected ==
    (inProtocol /\ Malformed(lastDets)) =>
        /\ lastOp = "update_rejected"
        /\ tracks = pre.tracks
        /\ _next_id = pre.next_id
        /\ samples = pre.samples

\* C10: predict advances age and time_since_update of every track by 1 and
\* changes nothing else: not the membership or order of the active set, not
\* an identity or a lifecycle state, not the counter, not the gallery.
C10_Predict ==
    Predicted =>
        /\ Len(tracks) = Len(pre.tracks)
        /\ \A k \in PreIdx :
               tracks[k] = [PreTrack(k) EXCEPT
                               !.age = @ + 1, !.time_since_update = @ + 1]
        /\ _next_id = pre.next_id
        /\ samples = pre.samples

C10_Witness ==
    /\ inProtocol
    /\ Predicted
    /\ \E k \in PreIdx : is_tentative(tracks[k]) /\ tracks[k].age = 1
    /\ \E k \in PreIdx : is_confirmed(tracks[k]) /\ tracks[k].age > 1
    /\ DOMAIN samples # {}

\* The case of C11: a Confirmed track that missed one frame and a detection,
\* not paired by Stage A, whose overlap cost is within the cutoff.
OneMissOverlap(k, d) ==
    /\ is_confirmed(PreTrack(k))
    /\ PreTrack(k).time_since_update = 1
    /\ <<k, d>> \notin lastMatch.matches_a
    /\ <<k, d>> \in lastIou

\* No other pair within the cutoff competes with <<k, d>> in Stage B.
Uncontested(k, d) ==
    \A e \in lastIou :
        (e[1] \in lastMatch.iou_track_candidates /\ (e[1] = k \/ e[2] = d))
            => e = <<k, d>>

\* C11 (as claimed): a Confirmed track with time_since_update 1 and a
\* detection that Stage A does not assign to it, with overlap cost within the
\* cutoff: the track is matched and its time_since_update is 0 after the
\* update (stated for the calls that follow the protocol; the weaker
\* conclusion "matched in some stage" is used, so that a violation is a track
\* that ends the update unmatched).
C11_Claimed ==
    (inProtocol /\ Updated) =>
        \A k \in PreIdx : \A d \in Idx(lastDets) :
            OneMissOverlap(k, d) =>
                /\ WasMatched(k)
                /\ Survives(k)
                /\ Cur(k).time_since_update = 0

\* C11 (amended): when Stage A leaves both unmatched, the track is a Stage B
\* candidate, the detection is offered to Stage B, and Stage B matches the
\* track or the detection (each possibly with another partner); a track that
\* Stage B matches has time_since_update 0 after the update; and when no
\* other candidate pair within the cutoff shares the track or the detection,
\* Stage B matches the two with each other.
C11_StageBRescue ==
    Updated =>
        \A k \in PreIdx : \A d \in Idx(lastDets) :
            ( /\ OneMissOverlap(k, d)
              /\ k \notin MatchedTracks(lastMatch.matches_a)
              /\ d \notin MatchedDets(lastMatch.matches_a) ) =>
                /\ k \in lastMatch.iou_track_candidates
                /\ d \in lastMatch.unmatched_detections_a
                /\ \/ k \in MatchedTracks(lastMatch.matches_b)
                   \/ d \in MatchedDets(lastMatch.matches_b)
                /\ k \in MatchedTracks(lastMatch.matches_b) =>
                       /\ Survives(k)
                       /\ Cur(k).time_since_update = 0
                       /\ is_confirmed(Cur(k))
                /\ Uncontested(k, d) => <<k, d>> \in lastMatch.matches_b

C11_Witness ==
    /\ inProtocol
    /\ Updated
    /\ \E k \in PreIdx : \E d \in Idx(lastDets) :
           /\ OneMissOverlap(k, d)
           /\ Uncontested(k, d)
           /\ <<k, d>> \in lastMatch.matches_b
           /\ Cur(k).time_since_update = 0
           /\ lastMatch.matches_a # {}

\* C12: after every update the identities holding a gallery are exactly the
\* identities of the Confirmed tracks of the active set, the update called
\* partial_fit once, with those identities as the active targets, and every
\* Confirmed track of the active set has an empty feature list.
C12_GalleryRefresh ==
    Updated =>
        /\ DOMAIN samples = ConfirmedIds(tracks)
        /\ lastFit.calls = 1
        /\ lastFit.active_targets = ConfirmedIds(tracks)
        /\ \A i \in Idx(tracks) :
               is_confirmed(tracks[i]) => tracks[i].features = <<>>

C12_Witness ==
    /\ inProtocol
    /\ Updated
    /\ \E i \in Idx(tracks) : is_tentative(tracks[i])
    /\ \E i \in Idx(tracks) :
           /\ is_confirmed(tracks[i])
           /\ FeaturesOf(tracks[i].track_id, lastFit.features,
                         lastFit.targets) # <<>>
    /\ DOMAIN pre.samples \ DOMAIN samples # {}

IdSeq(trks) == [i \in Idx(trks) |-> trks[i].track_id]

\* The tracks the last update marked Deleted: the unmatched ones that
\* mark_missed deletes.
DoomedIds ==
    {PreTrack(k).track_id :
        k \in {j \in lastMatch.unmatched_tracks :
                   is_deleted(Track_mark_missed(PreTrack(j)))}}

NewCount == Len(lastMatch.unmatched_detections)

\* C13: after every update the active set holds no Deleted track, and it is
\* the tracks of before the call that were not marked Deleted, in their old
\* order, followed by the tracks the call created, in creation order.
C13_Prune ==
    Updated =>
        /\ \A i \in Idx(tracks) : ~is_deleted(tracks[i])
        /\ IdSeq(tracks) =
               IdSeq(SelectSeq(pre.tracks,
                         LAMBDA t : t.track_id \notin DoomedIds))
               \o [j \in 1..NewCount |-> pre.next_id + j - 1]

C13_Witness ==
    /\ inProtocol
    /\ Updated
    /\ Len(pre.tracks) = 2
    /\ PreTrack(1).track_id \in DoomedIds
    /\ PreTrack(2).track_id \notin DoomedIds
    /\ NewCount = 1
    /\ Len(tracks) = 2

UnmatchedDets ==
    {lastMatch.unmatched_detections[j] : j \in Idx(lastMatch.unmatched_detections)}

\* C14: the result of _match splits the inputs: every track index is in
\* exactly one match pair or in the unmatched tracks, never both and never
\* neither, and likewise every detection index; so a matched track is
\* updated and not marked missed, an unmatched track is not updated, and
\* the tracks created are as many as the detections in no match pair.
C14_MergePartition ==
    Updated =>
        /\ IsMatching(lastMatch.matches)
        /\ MatchedTracks(lastMatch.matches_a)
               \cap MatchedTracks(lastMatch.matches_b) = {}
        /\ MatchedDets(lastMatch.matches_a)
               \cap MatchedDets(lastMatch.matches_b) = {}
        /\ MatchedTracks(lastMatch.matches) \cup lastMatch.unmatched_tracks
               = PreIdx
        /\ MatchedTracks(lastMatch.matches) \cap lastMatch.unmatched_tracks
               = {}
        /\ MatchedDets(lastMatch.matches) \cup UnmatchedDets = Idx(lastDets)
        /\ MatchedDets(lastMatch.matches) \cap UnmatchedDets = {}
        /\ Cardinality(UnmatchedDets) = NewCount
        /\ \A k \in PreIdx :
               IF WasMatched(k)
               THEN /\ Survives(k)
                    /\ Cur(k).hits = PreTrack(k).hits + 1
                    /\ Cur(k).time_since_update = 0
               ELSE Survives(k) =>
                        /\ Cur(k).hits = PreTrack(k).hits
                        /\ Cur(k).state = PreTrack(k).state
        /\ Cardinality(Ids(tracks) \ Ids(pre.tracks))
               = Len(lastDets) - Cardinality(lastMatch.matches)

C14_Witness ==
    /\ inProtocol
    /\ Updated
    /\ \E k \in MatchedTracks(lastMatch.matches_b) :
           is_confirmed(PreTrack(k))
    /\ lastMatch.unmatched_tracks # {}
    /\ lastMatch.unmatched_detections # <<>>

C16_SecondChance ==
    (inProtocol /\ Updated) =>
        \A k \in PreIdx :
            /\ PreTrack(k).track_id \in prevHits =>
                   PreTrack(k).time_since_update = 1
            /\ ( /\ is_confirmed(PreTrack(k))
                 /\ PreTrack(k).track_id \in prevHits
                 /\ k \notin MatchedTracks(lastMatch.matches_a) ) =>
                   k \in lastMatch.iou_track_candidates
            /\ is_tentative(PreTrack(k)) =>
                   k \in lastMatch.iou_track_candidates

C16_Witness ==
    /\ inProtocol
    /\ Updated
    /\ \E k \in PreIdx :
           /\ is_confirmed(PreTrack(k))
           /\ PreTrack(k).track_id \in prevHits
           /\ k \notin MatchedTracks(lastMatch.matches_a)
           /\ k \in lastMatch.iou_track_candidates
    /\ \E k \in PreIdx :
           /\ is_tentative(PreTrack(k))
           /\ k \in lastMatch.iou_track_candidates

\* The identities Stage A asks the metric about in update(dets): the
\* Confirmed tracks of the cascade's tiers, when there is a detection.
QueriedIds(depth, trks, dets) ==
    IF CallsMetric(depth, trks, dets)
    THEN gated_metric_targets(trks,
             {k \in confirmed_tracks(trks) :
                 trks[k].time_since_update \in 1..depth})
    ELSE {}

\* C18: every Confirmed track of the active set has a non-empty gallery and
\* no Tentative track has one, in every state; so the identities Stage A
\* asks the metric about in an update all had a non-empty gallery when the
\* update began, and none of them is Tentative.
C18_QueriedGalleries ==
    /\ \A i \in Idx(tracks) :
           /\ is_confirmed(tracks[i]) =>
                  /\ tracks[i].track_id \in DOMAIN samples
                  /\ samples[tracks[i].track_id] # <<>>
           /\ is_tentative(tracks[i]) =>
                  tracks[i].track_id \notin DOMAIN samples
    /\ Updated =>
           \A id \in QueriedIds(max_age, pre.tracks, lastDets) :
               /\ id \in DOMAIN pre.samples
               /\ pre.samples[id] # <<>>
               /\ \A k \in PreIdx :
                      PreTrack(k).track_id = id => is_confirmed(PreTrack(k))

C18_Witness ==
    /\ inProtocol
    /\ Updated
    /\ QueriedIds(max_age, pre.tracks, lastDets) # {}
    /\ \E k \in PreIdx : is_tentative(PreTrack(k))
    /\ lastMatch.matches_a # {}

LegalStep(a, b) ==
    <<a, b>> \in {<<Tentative, Tentative>>, <<Tentative, Confirmed>>,
                  <<Confirmed, Confirmed>>, <<Tentative, Deleted>>,
                  <<Confirmed, Deleted>>, <<Deleted, Deleted>>}

\* C19: in every step a track keeps its lifecycle state or goes from
\* Tentative to Confirmed, from Tentative to Deleted or from Confirmed to
\* Deleted; an identity that enters the active set is Tentative and was
\* never in it before; predict changes no lifecycle state.
C19_Lifecycle ==
    [][ /\ \A i \in Idx(tracks) : \A j \in Idx(tracks') :
              tracks[i].track_id = tracks'[j].track_id =>
                  LegalStep(tracks[i].state, tracks'[j].state)
        /\ \A j \in Idx(tracks') :
              tracks'[j].track_id \notin Ids(tracks) =>
                  /\ tracks'[j].state = Tentative
                  /\ tracks'[j].track_id \notin retired
        /\ lastOp' = "predict" =>
              /\ Len(tracks') = Len(tracks)
              /\ \A i \in Idx(tracks) :
                     /\ tracks'[i].track_id = tracks[i].track_id
                     /\ tracks'[i].state = tracks[i].state
      ]_vars

C19_Witness ==
    /\ inProtocol
    /\ Updated
    /\ \E k \in PreIdx :
           is_tentative(PreTrack(k)) /\ Survives(k) /\ is_confirmed(Cur(k))
    /\ \E k \in PreIdx : is_confirmed(PreTrack(k)) /\ ~Survives(k)
    /\ \E i \in Idx(tracks) :
           /\ tracks[i].track_id \notin Ids(pre.tracks)
           /\ is_tentative(tracks[i])

\* What partial_fit was given for the track at index k of before the call.
Given(k) ==
    FeaturesOf(PreTrack(k).track_id, lastFit.features, lastFit.targets)

\* What that track held when the gallery was refreshed.
Held(k) ==
    PreTrack(k).features
    \o (IF WasMatched(k)
        THEN <<lastDets[CHOOSE d \in Idx(lastDets) :
                            <<k, d>> \in lastMatch.matches].feature>>
        ELSE <<>>)

\* C20: each feature of a track (its seed and one per match) is either still
\* in the track's list or was handed to partial_fit once; a Tentative track
\* has handed over nothing and has no gallery; in an update exactly the
\* tracks that end it Confirmed hand over, each all it holds, tagged with
\* its own identity, and the other tracks (Tentative, or removed) nothing.
C20_FeatureHandover ==
    /\ DOMAIN handed = Ids(tracks)
    /\ \A i \in Idx(tracks) :
           /\ handed[tracks[i].track_id] + Len(tracks[i].features)
                  = tracks[i].hits + 1
           /\ is_tentative(tracks[i]) =>
                  /\ handed[tracks[i].track_id] = 0
                  /\ tracks[i].track_id \notin DOMAIN samples
    /\ Updated =>
           /\ Len(lastFit.features) = Len(lastFit.targets)
           /\ \A j \in Idx(lastFit.targets) :
                  /\ lastFit.targets[j] \in ConfirmedIds(tracks)
                  /\ lastFit.targets[j] \in Ids(pre.tracks)
           /\ \A k \in PreIdx :
                  Given(k) = IF Survives(k) /\ is_confirmed(Cur(k))
                             THEN Held(k) ELSE <<>>

C20_Witness ==
    /\ inProtocol
    /\ Updated
    /\ n_init = 2
    /\ \E k \in PreIdx :
           /\ is_tentative(PreTrack(k)) /\ Survives(k)
           /\ is_confirmed(Cur(k))
           /\ Len(Given(k)) = 3
    /\ \E k \in PreIdx :
           /\ is_tentative(PreTrack(k)) /\ ~Survives(k)
           /\ Len(PreTrack(k).features) = 1

\* The safety part of C17: an update that leaves a Confirmed track unmatched
\* for the m-th frame in a row keeps it, still Confirmed, while m <= max_age
\* and removes it when m = max_age + 1; m never gets larger.
MissedFrames ==
    (inProtocol /\ Updated) =>
        \A k \in PreIdx :
            (is_confirmed(PreTrack(k)) /\ ~WasMatched(k)) =>
                LET m == misses[PreTrack(k).track_id]
                IN  /\ m >= 1 /\ m <= max_age + 1
                    /\ m = PreTrack(k).time_since_update
                    /\ m <= max_age =>
                           Survives(k) /\ is_confirmed(Cur(k))
                    /\ m = max_age + 1 =>
                           /\ ~Survives(k)
                           /\ PreTrack(k).track_id \in retired

\* C17: with one predict before each update and frames that keep coming, a
\* Confirmed track that goes unmatched stays in the active set, Confirmed,
\* through max_age missed frames in a row and is removed by the update of
\* the (max_age + 1)-th; and every track of the active set is matched again
\* or removed from the active set later on.
C17_MaxAgeRemoval ==
    /\ []MissedFrames
    /\ \A id \in 1..MaxId :
           (id \in Ids(tracks)) ~>
               (id \notin Ids(tracks) \/ (Updated /\ id \in HitIds))

C17_Witness ==
    /\ inProtocol
    /\ Updated
    /\ max_age = 2
    /\ \E k \in PreIdx :
           /\ is_confirmed(PreTrack(k))
           /\ misses[PreTrack(k).track_id] = max_age + 1
           /\ ~Survives(k)
    /\ \E k \in PreIdx :
           /\ is_confirmed(PreTrack(k))
           /\ misses[PreTrack(k).track_id] = max_age
           /\ Survives(k)

====
